---- MODULE Spec2Model ----
(***************************************************************************)
(* The hand-written SMTP client of the notification functions              *)
(* (supabase/functions/send-*-notification/index.ts, sendEmail): one       *)
(* implicit-TLS connection, the command/reply dialogue, and the outcome    *)
(* the caller sees.  The mail relay and the network are the environment:   *)
(* every reply and every failure of an I/O primitive is its choice.        *)
(***************************************************************************)
EXTENDS Integers, Sequences, FiniteSets, TLC

\* ------------------------------------------------------------------ bounds
\* Number of sendEmail calls made one after another in one process.
MaxSends == 2
\* Number of replies per session that are not the one the step expects.
MaxAbnormal == 2
\* Number of sendEmail calls running side by side.
NProcs == 2
\* Number of times per session the server sends a reply cut in two.
MaxSplits == 2
\* Number of front-end workflows run one after another.
MaxFlows == 2

Procs == 1..NProcs

\* ------------------------------------------------------- values and inputs
\* Deno.env.get() of a variable that is not set.
Undefined == "<undefined>"

\* JavaScript truthiness of an environment value: !v.
Falsy(v) == v = Undefined \/ v = ""

\* Template-literal conversion `${v}` of an environment value.
Str(v) == IF v = Undefined THEN "undefined" ELSE v

\* btoa(v): Base64 of String(v), tabulated for the values of Configs.
Btoa(v) ==
  CASE Str(v) = "bot@x.org" -> "Ym90QHgub3Jn"
    [] Str(v) = "s3cret"    -> "czNjcmV0"
    [] Str(v) = "undefined" -> "dW5kZWZpbmVk"
    [] Str(v) = ""          -> ""

\* The three copies of sendEmail.
Variants == {"task", "assignment", "member"}

\* The environment at call time: SMTP_HOST, SMTP_USER, SMTP_PASSWORD, each
\* set, unset or empty (at most one of them missing).
FullConfig == [host |-> "smtp.x.org", user |-> "bot@x.org", pass |-> "s3cret"]

Configs ==
  {FullConfig}
    \cup {[FullConfig EXCEPT !.host = v] : v \in {Undefined, ""}}
    \cup {[FullConfig EXCEPT !.user = v] : v \in {Undefined, ""}}
    \cup {[FullConfig EXCEPT !.pass = v] : v \in {Undefined, ""}}

\* The arguments (to, subject, body).  A text is the sequence of its lines,
\* i.e. the string split at CRLF.
Messages ==
  { [to |-> <<"ann@y.org">>, subject |-> <<"Task Assigned: T1">>,
     body |-> <<"<html>", "<p>Hi Ann,</p>", "</html>">>],
    [to |-> <<"raj@y.org">>, subject |-> <<"Task Unassignment: T2">>,
     body |-> <<"<html>", ".", "</html>">>] }

NoMessage == [to |-> <<"">>, subject |-> <<"">>, body |-> <<"">>]

\* ------------------------------------------------------------ the dialogue
\* The replies of the dialogue in program order; every one but the greeting
\* answers the command of the same name.
StepOrder ==
  <<"greeting", "ehlo", "auth", "user", "pass", "mail", "rcpt", "data",
    "content", "quit">>

Steps == {StepOrder[i] : i \in 1..Len(StepOrder)}

StepIndex(s) == CHOOSE i \in 1..Len(StepOrder) : StepOrder[i] = s

\* read() returned null: the peer closed the stream.
EOF == 0

\* The reply a cooperating server gives at each step.
Expected(s) ==
  CASE s = "greeting" -> 220
    [] s = "ehlo"     -> 250
    [] s = "auth"     -> 334
    [] s = "user"     -> 334
    [] s = "pass"     -> 235
    [] s = "mail"     -> 250
    [] s = "rcpt"     -> 250
    [] s = "data"     -> 354
    [] s = "content"  -> 250
    [] s = "quit"     -> 221

\* A rejection a server can give at each step.
Rejection(s) ==
  CASE s = "greeting" -> 554
    [] s = "ehlo"     -> 502
    [] s = "auth"     -> 504
    [] s = "user"     -> 501
    [] s = "pass"     -> 535
    [] s = "mail"     -> 451
    [] s = "rcpt"     -> 550
    [] s = "data"     -> 554
    [] s = "content"  -> 552
    [] s = "quit"     -> 421

\* `${prefix}${text}${suffix}` followed by CRLF, as lines: line breaks
\* inside the text are copied as they are.
Interp(prefix, text, suffix) ==
  IF Len(text) = 1
    THEN <<prefix \o text[1] \o suffix>>
    ELSE <<prefix \o text[1]>>
           \o SubSeq(text, 2, Len(text) - 1)
           \o <<text[Len(text)] \o suffix>>

\* EmailContent without the empty line between the headers and the body.
EmailContentNoBlankLine(c, m) ==
  <<"From: " \o Str(c.user)>>
    \o Interp("To: ", m.to, "")
    \o Interp("Subject: ", m.subject, "")
    \o <<"Content-Type: text/html; charset=utf-8">>
    \o Interp("", m.body, "")
    \o <<".">>

\* The string built for the DATA phase, as lines.
EmailContent(c, m) ==
  <<"From: " \o Str(c.user)>>
    \o Interp("To: ", m.to, "")
    \o Interp("Subject: ", m.subject, "")
    \o <<"Content-Type: text/html; charset=utf-8", "">>
    \o Interp("", m.body, "")
    \o <<".">>

\* Command with the credentials written as they are, not in Base64.
CommandPlainAuth(s, c, m) ==
  CASE s = "ehlo"    -> <<"EHLO " \o Str(c.host)>>
    [] s = "auth"    -> <<"AUTH LOGIN">>
    [] s = "user"    -> <<Str(c.user)>>
    [] s = "pass"    -> <<Str(c.pass)>>
    [] s = "mail"    -> <<"MAIL FROM:<" \o Str(c.user) \o ">">>
    [] s = "rcpt"    -> Interp("RCPT TO:<", m.to, ">")
    [] s = "data"    -> <<"DATA">>
    [] s = "content" -> EmailContent(c, m)
    [] s = "quit"    -> <<"QUIT">>

\* The lines one write puts on the wire at each step.
Command(s, c, m) ==
  CASE s = "ehlo"    -> <<"EHLO " \o Str(c.host)>>
    [] s = "auth"    -> <<"AUTH LOGIN">>
    [] s = "user"    -> <<Btoa(c.user)>>
    [] s = "pass"    -> <<Btoa(c.pass)>>
    [] s = "mail"    -> <<"MAIL FROM:<" \o Str(c.user) \o ">">>
    [] s = "rcpt"    -> Interp("RCPT TO:<", m.to, ">")
    [] s = "data"    -> <<"DATA">>
    [] s = "content" -> EmailContent(c, m)
    [] s = "quit"    -> <<"QUIT">>

\* The guard at the top of sendEmail; send-task-notification has none.
ConfigMissing(v, c) ==
  /\ v \in {"assignment", "member"}
  /\ Falsy(c.host) \/ Falsy(c.user) \/ Falsy(c.pass)

\* ------------------------------------------------------------------- state
VARIABLES
  variant,      \* which copy of sendEmail is running
  cfg,          \* the environment read at the top of the call
  msg,          \* the arguments (to, subject, body)
  pc,           \* "idle", "connect", "startTls", "read", "write", "returned"
  step,         \* the step of the dialogue pc is at ("none" outside it)
  handle,       \* the call's connection: "none", "tcp", "tls", "closed", "dropped"
  closes,       \* close() calls made by this call
  openHandles,  \* connection handles open in the process
  sent,         \* commands written on this connection, in order
  wire,         \* the lines written on this connection, in order
  replies,      \* reply codes read on this connection, in order
  io,           \* I/O primitives called by this call
  fault,        \* the I/O primitive the environment made fail ("none" if none)
  outcome,      \* "none", "true", "false", "throw"
  err,          \* where the error that was thrown came from
  calls,        \* calls started so far
  procs,        \* sendEmail calls running side by side: each one's locals
  conns,        \* what the server side saw on each connection they opened
  net,          \* reply chunks in flight from the server to the call
  flow,         \* a front-end workflow that triggers a notification
  trio,         \* the three copies of sendEmail run on the same inputs
  http,         \* the request a notification handler is serving
  dlg           \* the task dialog saving an existing task's assignees

vars ==
  <<variant, cfg, msg, pc, step, handle, closes, openHandles, sent, wire,
    replies, io, fault, outcome, err, calls, procs, conns, net, flow, trio,
    http, dlg>>

\* The state of the other views of the program, which one sendEmail call
\* taken alone leaves as it is.
aux == <<procs, conns, net, flow, trio, http, dlg>>

\* The views of the callers and of the copies taken together.
callerVars == <<trio, http, dlg>>

NoIo == [connects |-> 0, tls |-> 0, reads |-> 0, writes |-> 0]

\* A call that has not started: its locals conn and tlsConn are unset.
NoProc == [pc |-> "idle", step |-> "none", conn |-> 0, outcome |-> "none"]

NoProcs == [p \in Procs |-> NoProc]

\* Nothing sent by the server yet.
NoNet == [inbox |-> <<>>, answered |-> 0, splits |-> 0, consumed |-> <<>>]

\* No workflow running.
NoFlow ==
  [kind |-> "none", pc |-> "idle", loading |-> FALSE, toast |-> "none",
   refreshed |-> FALSE, db |-> "none", email |-> "none", edit |-> FALSE,
   who |-> "none", n |-> 0]

\* No copy of sendEmail started.
NoRun == [pc |-> "idle", step |-> "none", ops |-> <<>>, outcome |-> "none"]

NoTrio ==
  [cfg |-> FullConfig, msg |-> NoMessage, run |-> [v \in Variants |-> NoRun]]

\* No request received.
NoHttp ==
  [fn |-> "none", method |-> "none", body |-> [kind |-> "empty", fields |-> {}],
   pc |-> "idle", status |-> 0, message |-> "none", responses |-> 0,
   base |-> 0]

\* The dialog before any save; no row of task_assignees for the task.
NoDlg ==
  [pc |-> "idle", rows |-> {}, assignee_ids |-> <<>>, teamMembers |-> {},
   previousIds |-> <<>>, addedIds |-> <<>>, removedIds |-> <<>>,
   requests |-> <<>>, toast |-> "none"]

Init ==
  /\ variant = "task"
  /\ cfg = FullConfig
  /\ msg = NoMessage
  /\ pc = "idle"
  /\ step = "none"
  /\ handle = "none"
  /\ closes = 0
  /\ openHandles = 0
  /\ sent = <<>>
  /\ wire = <<>>
  /\ replies = <<>>
  /\ io = NoIo
  /\ fault = "none"
  /\ outcome = "none"
  /\ err = "none"
  /\ calls = 0
  /\ procs = NoProcs
  /\ conns = <<>>
  /\ net = NoNet
  /\ flow = NoFlow
  /\ trio = NoTrio
  /\ http = NoHttp
  /\ dlg = NoDlg

\* Replies read so far that are not the expected one of their step.
Abnormal == Cardinality({i \in 1..Len(replies) : replies[i] # Expected(StepOrder[i])})

ServerClosed == \E i \in 1..Len(replies) : replies[i] = EOF

\* What one read can return at a step.
ReplyChoices(s) ==
  IF ServerClosed THEN {EOF}
  ELSE {Expected(s)} \cup
       (IF Abnormal < MaxAbnormal THEN {Rejection(s), EOF} ELSE {})

\* Catch with a failed connect swallowed: the dialogue goes on.
CatchSwallowConnect(where) ==
  IF where = "connect"
    THEN pc' = "startTls" /\ UNCHANGED <<step, outcome, err>>
    ELSE /\ pc' = "returned"
         /\ step' = "none"
         /\ outcome' = "throw"
         /\ err' = where

\* Catch with a failed connect or handshake tried again.
CatchRetryConnect(where) ==
  IF where \in {"connect", "startTls"}
    THEN pc' = "connect" /\ UNCHANGED <<step, outcome, err>>
    ELSE /\ pc' = "returned"
         /\ step' = "none"
         /\ outcome' = "throw"
         /\ err' = where

\* Catch with a failed handshake swallowed: the dialogue goes on over the
\* connection as it is.
CatchSwallowTls(where) ==
  IF where = "startTls"
    THEN pc' = "read" /\ step' = "greeting" /\ UNCHANGED <<outcome, err>>
    ELSE /\ pc' = "returned"
         /\ step' = "none"
         /\ outcome' = "throw"
         /\ err' = where

\* The catch block: log, rethrow.  Nothing is closed there.
Catch(where) ==
  /\ pc' = "returned"
  /\ step' = "none"
  /\ outcome' = "throw"
  /\ err' = where

\* Control after the reply of step s has been read with code r: the code
\* looks at no reply; after the last read it closes and returns true.
AfterRead(s, r) ==
  IF s = "quit" THEN "close" ELSE "write"

\* ----------------------------------------------------------------- actions
\* sendEmail(to, subject, body) up to its first await.
Call(v, c, m) ==
  /\ pc \in {"idle", "returned"}
  /\ calls < MaxSends
  /\ calls' = calls + 1
  /\ variant' = v
  /\ cfg' = c
  /\ msg' = m
  /\ sent' = <<>>
  /\ wire' = <<>>
  /\ replies' = <<>>
  /\ io' = NoIo
  /\ fault' = "none"
  /\ err' = "none"
  /\ handle' = "none"
  /\ closes' = 0
  /\ step' = "none"
  /\ IF ConfigMissing(v, c)
       THEN pc' = "returned" /\ outcome' = "false"
       ELSE pc' = "connect" /\ outcome' = "none"
  /\ UNCHANGED openHandles

\* await Deno.connect(...)
Connect ==
  /\ pc = "connect"
  /\ io' = [io EXCEPT !.connects = @ + 1]
  /\ \/ /\ pc' = "startTls"
        /\ handle' = "tcp"
        /\ openHandles' = openHandles + 1
        /\ UNCHANGED <<step, outcome, err, fault>>
     \/ /\ fault' = "connect"
        /\ Catch("connect")
        /\ UNCHANGED <<handle, openHandles>>
  /\ UNCHANGED <<variant, cfg, msg, closes, sent, wire, replies, calls>>

\* await Deno.startTls(conn, ...).  When it fails the runtime has either
\* dropped the TCP handle it took over or left it open.
StartTls ==
  /\ pc = "startTls"
  /\ io' = [io EXCEPT !.tls = @ + 1]
  /\ \/ /\ pc' = "read"
        /\ step' = "greeting"
        /\ handle' = "tls"
        /\ UNCHANGED <<openHandles, outcome, err, fault>>
     \/ /\ fault' = "startTls"
        /\ Catch("startTls")
        /\ \/ UNCHANGED <<handle, openHandles>>
           \/ handle' = "dropped" /\ openHandles' = openHandles - 1
  /\ UNCHANGED <<variant, cfg, msg, closes, sent, wire, replies, calls>>

\* await tlsConn.read(buf) at step `step`, and what follows it up to the
\* next await.
Read ==
  /\ pc = "read"
  /\ io' = [io EXCEPT !.reads = @ + 1]
  /\ \/ \E r \in ReplyChoices(step) :
          /\ replies' = Append(replies, r)
          /\ IF AfterRead(step, r) = "close"
               THEN /\ handle' = "closed"
                    /\ closes' = closes + 1
                    /\ openHandles' = openHandles - 1
                    /\ pc' = "returned"
                    /\ step' = "none"
                    /\ outcome' = "true"
               ELSE /\ pc' = "write"
                    /\ step' = StepOrder[StepIndex(step) + 1]
                    /\ UNCHANGED <<handle, closes, openHandles, outcome>>
          /\ UNCHANGED <<err, fault>>
     \/ /\ fault' = "read"
        /\ Catch(step)
        /\ UNCHANGED <<replies, handle, closes, openHandles>>
  /\ UNCHANGED <<variant, cfg, msg, sent, wire, calls>>

\* Write with the username line sent right after AUTH LOGIN, before the
\* reply to AUTH LOGIN is read.
WritePipelined ==
  /\ pc = "write"
  /\ io' = [io EXCEPT !.writes = @ + 1]
  /\ \/ /\ sent' = Append(sent, step)
        /\ wire' = wire \o Command(step, cfg, msg)
        /\ IF step = "auth"
             THEN pc' = "write" /\ step' = "user"
             ELSE pc' = "read" /\ step' = step
        /\ UNCHANGED <<outcome, err, fault>>
     \/ /\ fault' = "write"
        /\ Catch(step)
        /\ UNCHANGED <<sent, wire>>
  /\ UNCHANGED <<variant, cfg, msg, handle, closes, openHandles, replies, calls>>

\* await tlsConn.write(encoder.encode(...)) at step `step`.
Write ==
  /\ pc = "write"
  /\ io' = [io EXCEPT !.writes = @ + 1]
  /\ \/ /\ sent' = Append(sent, step)
        /\ wire' = wire \o Command(step, cfg, msg)
        /\ pc' = "read"
        /\ UNCHANGED <<step, outcome, err, fault>>
     \/ /\ fault' = "write"
        /\ Catch(step)
        /\ UNCHANGED <<sent, wire>>
  /\ UNCHANGED <<variant, cfg, msg, handle, closes, openHandles, replies, calls>>

Next ==
  \/ \E v \in Variants, c \in Configs, m \in Messages :
       Call(v, c, m) /\ UNCHANGED aux
  \/ Connect /\ UNCHANGED aux
  \/ StartTls /\ UNCHANGED aux
  \/ Read /\ UNCHANGED aux
  \/ Write /\ UNCHANGED aux

Spec == Init /\ [][Next]_vars

\* ------------------------------------------------- a relay that goes silent
\* The awaited startTls or read never settles: the peer stays connected and
\* sends nothing, and the code sets no deadline.
Stall ==
  /\ pc \in {"startTls", "read"}
  /\ pc' = "hung"
  /\ UNCHANGED <<variant, cfg, msg, step, handle, closes, openHandles, sent,
                 wire, replies, io, fault, outcome, err, calls>>

LiveNext ==
  \/ Next
  \/ Stall /\ UNCHANGED aux

\* The event loop runs the continuation of every I/O call that settles.
LiveSpec ==
  /\ Init
  /\ [][LiveNext]_vars
  /\ WF_vars(Connect /\ UNCHANGED aux)
  /\ WF_vars(StartTls /\ UNCHANGED aux)
  /\ WF_vars(Read /\ UNCHANGED aux)
  /\ WF_vars(Write /\ UNCHANGED aux)

\* ------------------------------------------- calls running side by side
\* The message call p sends; every call has its own recipient.
MsgOf(p) ==
  [to |-> <<CASE p = 1 -> "ann@y.org" [] p = 2 -> "raj@y.org"
              [] p = 3 -> "kim@y.org" [] OTHER -> "lee@y.org">>,
   subject |-> <<"Task Assigned: T1">>,
   body |-> <<"<html>", "</html>">>]

\* ConnOf with the connection kept in a variable of the module, shared by
\* the calls: the one opened last.
ConnOfShared(p) == Len(conns)

\* The connection call p reads and writes: its own constant tlsConn.
ConnOf(p) == procs[p].conn

\* The catch block of call p.
PCatch(p) ==
  procs' = [procs EXCEPT ![p].pc = "returned", ![p].step = "none",
                         ![p].outcome = "throw"]

\* Call p enters sendEmail; the configuration is complete.
PCall(p) ==
  /\ procs[p].pc = "idle"
  /\ procs' = [procs EXCEPT ![p].pc = "connect"]
  /\ UNCHANGED conns

\* await Deno.connect(...) in call p.
PConnect(p) ==
  /\ procs[p].pc = "connect"
  /\ \/ /\ conns' = Append(conns, [opener |-> p, users |-> {}, lines |-> <<>>,
                                   open |-> TRUE])
        /\ procs' = [procs EXCEPT ![p].pc = "startTls",
                                  ![p].conn = Len(conns) + 1]
     \/ PCatch(p) /\ UNCHANGED conns

\* await Deno.startTls(conn, ...) in call p.
PStartTls(p) ==
  /\ procs[p].pc = "startTls"
  /\ \/ /\ procs' = [procs EXCEPT ![p].pc = "read", ![p].step = "greeting"]
        /\ UNCHANGED conns
     \/ PCatch(p) /\ UNCHANGED conns

\* await tlsConn.read(buf) in call p, and what follows up to the next await.
PRead(p) ==
  /\ procs[p].pc = "read"
  /\ \/ /\ IF AfterRead(procs[p].step, Expected(procs[p].step)) = "close"
             THEN /\ procs' = [procs EXCEPT ![p].pc = "returned",
                                            ![p].step = "none",
                                            ![p].outcome = "true"]
                  /\ conns' = [conns EXCEPT
                                 ![ConnOf(p)].users = @ \cup {p},
                                 ![ConnOf(p)].open = FALSE]
             ELSE /\ procs' = [procs EXCEPT
                                 ![p].pc = "write",
                                 ![p].step = StepOrder[StepIndex(@) + 1]]
                  /\ conns' = [conns EXCEPT ![ConnOf(p)].users = @ \cup {p}]
     \/ PCatch(p) /\ UNCHANGED conns

\* await tlsConn.write(...) in call p.
PWrite(p) ==
  /\ procs[p].pc = "write"
  /\ \/ /\ conns' = [conns EXCEPT
                       ![ConnOf(p)].users = @ \cup {p},
                       ![ConnOf(p)].lines =
                          @ \o Command(procs[p].step, FullConfig, MsgOf(p))]
        /\ procs' = [procs EXCEPT ![p].pc = "read"]
     \/ PCatch(p) /\ UNCHANGED conns

sendVars ==
  <<variant, cfg, msg, pc, step, handle, closes, openHandles, sent, wire,
    replies, io, fault, outcome, err, calls>>

ConcNext ==
  \E p \in Procs :
    \/ PCall(p) /\ UNCHANGED <<sendVars, net, flow, callerVars>>
    \/ PConnect(p) /\ UNCHANGED <<sendVars, net, flow, callerVars>>
    \/ PStartTls(p) /\ UNCHANGED <<sendVars, net, flow, callerVars>>
    \/ PRead(p) /\ UNCHANGED <<sendVars, net, flow, callerVars>>
    \/ PWrite(p) /\ UNCHANGED <<sendVars, net, flow, callerVars>>

ConcSpec == Init /\ [][ConcNext]_vars

\* ----------------------------------------------- replies sent in pieces
\* The step the server is answering: the greeting first, then one reply for
\* each command it has received.
Answering == StepOrder[net.answered + 1]

\* The server sends one more piece of the reply it owes: the last piece, or
\* one that more pieces follow (a multi-line reply sent line by line, or a
\* reply cut by the transport).
ServerSend ==
  /\ handle = "tls"
  /\ net.answered < Len(sent) + 1
  /\ \/ net' = [net EXCEPT !.inbox = Append(@, Answering),
                           !.answered = @ + 1]
     \/ /\ net.splits < MaxSplits
        /\ net' = [net EXCEPT !.inbox = Append(@, Answering),
                              !.splits = @ + 1]
  /\ UNCHANGED <<sendVars, procs, conns, flow, callerVars>>

\* await tlsConn.read(buf) with pieces waiting: one read into the 1024-byte
\* buffer returns what has arrived, the first k pieces, and is not repeated.
ReadChunk ==
  /\ pc = "read"
  /\ net.inbox # <<>>
  /\ io' = [io EXCEPT !.reads = @ + 1]
  /\ \E k \in 1..Len(net.inbox) :
       /\ net' = [net EXCEPT
                    !.inbox = SubSeq(@, k + 1, Len(@)),
                    !.consumed =
                       Append(@, {net.inbox[i] : i \in 1..k})]
       /\ replies' = Append(replies, Expected(net.inbox[1]))
  /\ IF AfterRead(step, Expected(net.inbox[1])) = "close"
       THEN /\ handle' = "closed"
            /\ closes' = closes + 1
            /\ openHandles' = openHandles - 1
            /\ pc' = "returned"
            /\ step' = "none"
            /\ outcome' = "true"
       ELSE /\ pc' = "write"
            /\ step' = StepOrder[StepIndex(step) + 1]
            /\ UNCHANGED <<handle, closes, openHandles, outcome>>
  /\ UNCHANGED <<variant, cfg, msg, sent, wire, calls, err, fault>>
  /\ UNCHANGED <<procs, conns, flow, callerVars>>

ChunkNext ==
  \/ \E v \in Variants, m \in Messages :
       /\ Call(v, FullConfig, m)
       /\ net' = NoNet
       /\ UNCHANGED <<procs, conns, flow, callerVars>>
  \/ Connect /\ UNCHANGED aux
  \/ StartTls /\ UNCHANGED aux
  \/ Write /\ UNCHANGED aux
  \/ ReadChunk
  \/ ServerSend

ChunkSpec == Init /\ [][ChunkNext]_vars

\* ------------------------------------------------- front-end workflows
\* The handlers that write to the database and then ask for a notification:
\* handleSubmit of the task dialog that awaits send-task-notification, and
\* handleAddMember / handleRemoveMember of the project members dialog.
FlowKinds == {"saveTask", "addMember", "removeMember"}

\* The success path's end: toast, refresh callback; then finally.
FlowSucceed(f) ==
  [f EXCEPT !.pc = "done", !.toast = "success", !.refreshed = TRUE,
            !.loading = FALSE]

\* The catch block's toast; then finally.
FlowFail(f) ==
  [f EXCEPT !.pc = "done", !.toast = "error", !.loading = FALSE]

\* What follows a database write that succeeded, up to the next await.
FlowAfterDb(f) ==
  CASE f.kind = "saveTask" ->
         IF f.who = "known" /\ ~f.edit
           THEN [f EXCEPT !.pc = "email", !.email = "pending"]
           ELSE FlowSucceed(f)
    [] f.kind = "addMember" -> [f EXCEPT !.pc = "project"]
    [] f.kind = "removeMember" ->
         IF f.who = "known" THEN [f EXCEPT !.pc = "project"]
                            ELSE FlowSucceed(f)

\* The handler starts: setLoading(true) and the awaited database write.
\* handleAddMember returns at once when no user is selected.
FlowStart(k, e, w) ==
  /\ flow.pc \in {"idle", "done"}
  /\ flow.n < MaxFlows
  /\ ~(k = "addMember" /\ w = "none")
  /\ flow' = [NoFlow EXCEPT !.kind = k, !.pc = "db", !.loading = TRUE,
                            !.edit = e, !.who = w, !.n = flow.n + 1]

\* The awaited insert, update or delete settles.
FlowDbDone ==
  /\ flow.pc = "db"
  /\ \/ flow' = FlowAfterDb([flow EXCEPT !.db = "ok"])
     \/ flow' = FlowFail([flow EXCEPT !.db = "error"])

\* The awaited select of the project name settles, with a row or without.
FlowProjectDone ==
  /\ flow.pc = "project"
  /\ \/ /\ flow.who = "known"
        /\ flow' = [flow EXCEPT !.pc = "inapp"]
     \/ flow' = FlowSucceed(flow)

\* The awaited createNotificationForUser settles (it catches its own
\* errors); send-project-member-notification is invoked and not awaited.
FlowInAppDone ==
  /\ flow.pc = "inapp"
  /\ flow' = FlowSucceed([flow EXCEPT !.email = "pending"])

\* The invoked notification function settles: a result, an error result or
\* a rejection.  Where the handler awaits it, the handler goes on.
FlowEmailSettled ==
  /\ flow.email = "pending"
  /\ \E r \in {"ok", "failed"} :
       flow' = IF flow.pc = "email"
                 THEN FlowSucceed([flow EXCEPT !.email = r])
                 ELSE [flow EXCEPT !.email = r]

FlowNext ==
  \/ \E k \in FlowKinds, e \in BOOLEAN, w \in {"none", "unknown", "known"} :
       FlowStart(k, e, w) /\ UNCHANGED <<sendVars, procs, conns, net, callerVars>>
  \/ FlowDbDone /\ UNCHANGED <<sendVars, procs, conns, net, callerVars>>
  \/ FlowProjectDone /\ UNCHANGED <<sendVars, procs, conns, net, callerVars>>
  \/ FlowInAppDone /\ UNCHANGED <<sendVars, procs, conns, net, callerVars>>
  \/ FlowEmailSettled /\ UNCHANGED <<sendVars, procs, conns, net, callerVars>>

\* The awaited database calls settle; nothing makes the notification
\* function settle.
FlowSpec ==
  /\ Init
  /\ [][FlowNext]_vars
  /\ WF_vars(FlowDbDone /\ UNCHANGED <<sendVars, procs, conns, net, callerVars>>)
  /\ WF_vars(FlowProjectDone /\ UNCHANGED <<sendVars, procs, conns, net, callerVars>>)
  /\ WF_vars(FlowInAppDone /\ UNCHANGED <<sendVars, procs, conns, net, callerVars>>)

\* ------------------------------------ request values with line breaks
\* Arguments as the handlers pass them on: assigneeEmail and taskTitle are
\* request fields used as they come, so the text of `to` and of `subject`
\* can hold CRLF, i.e. be more than one line.
InjectMessages ==
  { [to |-> t, subject |-> s, body |-> <<"<html>", "</html>">>] :
      t \in { <<"ann@y.org">>, <<"ann@y.org>", "RCPT TO:<eve@z.org">> },
      s \in { <<"Task Assigned: T1">>,
              <<"Task Assigned: T1", "Bcc: eve@z.org">> } }

InjectNext ==
  \/ \E v \in Variants, m \in InjectMessages :
       Call(v, FullConfig, m) /\ UNCHANGED aux
  \/ Connect /\ UNCHANGED aux
  \/ StartTls /\ UNCHANGED aux
  \/ Read /\ UNCHANGED aux
  \/ Write /\ UNCHANGED aux

InjectSpec == Init /\ [][InjectNext]_vars

\* ------------------------------------------- the three copies side by side
\* The three copies of sendEmail are given the same arguments and the same
\* environment, and the network and the server treat them alike: the k-th
\* I/O call of each copy succeeds or fails as the k-th call of the others.
\* An I/O call a copy makes: its primitive and the lines it writes.
Op(name, lines) == [op |-> name, lines |-> lines]

\* The catch block of one copy.
RunCatch(r) == [r EXCEPT !.pc = "returned", !.step = "none", !.outcome = "throw"]

\* Copy v up to its first await.
RunStart(v, c) ==
  IF ConfigMissing(v, c)
    THEN [NoRun EXCEPT !.pc = "returned", !.outcome = "false"]
    ELSE [NoRun EXCEPT !.pc = "connect"]

\* One copy from one await to the next: its I/O call succeeds (a read
\* returns reply r) or throws.
RunStep(run, c, m, good, r) ==
  CASE run.pc = "connect" ->
         LET q == [run EXCEPT !.ops = Append(@, Op("connect", <<>>))]
         IN  IF good THEN [q EXCEPT !.pc = "startTls"] ELSE RunCatch(q)
    [] run.pc = "startTls" ->
         LET q == [run EXCEPT !.ops = Append(@, Op("startTls", <<>>))]
         IN  IF good THEN [q EXCEPT !.pc = "read", !.step = "greeting"]
                     ELSE RunCatch(q)
    [] run.pc = "read" ->
         LET q == [run EXCEPT !.ops = Append(@, Op("read", <<>>))]
         IN  IF ~good THEN RunCatch(q)
             ELSE IF AfterRead(run.step, r) = "close"
               THEN [q EXCEPT !.ops = Append(@, Op("close", <<>>)),
                              !.pc = "returned", !.step = "none",
                              !.outcome = "true"]
               ELSE [q EXCEPT !.pc = "write",
                              !.step = StepOrder[StepIndex(@) + 1]]
    [] run.pc = "write" ->
         LET q == [run EXCEPT
                     !.ops = Append(@, Op("write", Command(run.step, c, m)))]
         IN  IF good THEN [q EXCEPT !.pc = "read"] ELSE RunCatch(q)
    [] OTHER -> run

\* The three copies are called with the same arguments and environment.
TrioStart(c, m) ==
  /\ \A v \in Variants : trio.run[v].pc \in {"idle", "returned"}
  /\ trio' = [cfg |-> c, msg |-> m,
              run |-> [v \in Variants |-> RunStart(v, c)]]

\* The pending I/O call of every copy that is still running settles, the
\* same way for all of them.
TrioStep ==
  /\ \E v \in Variants : trio.run[v].pc \notin {"idle", "returned"}
  /\ \E good \in BOOLEAN, kind \in {"expected", "rejection", "eof"} :
       trio' =
         [trio EXCEPT
            !.run = [v \in Variants |->
                       LET s == trio.run[v].step
                           r == IF s \notin Steps \/ kind = "eof" THEN EOF
                                ELSE IF kind = "expected" THEN Expected(s)
                                ELSE Rejection(s)
                       IN  RunStep(trio.run[v], trio.cfg, trio.msg, good, r)]]

EquivNext ==
  \/ \E c \in Configs, m \in Messages :
       TrioStart(c, m) /\ UNCHANGED <<sendVars, procs, conns, net, flow, http, dlg>>
  \/ TrioStep /\ UNCHANGED <<sendVars, procs, conns, net, flow, http, dlg>>

EquivSpec == Init /\ [][EquivNext]_vars

\* ------------------------------------------------------ the HTTP handlers
\* The handler of each function, named as its copy of sendEmail.
Methods == {"OPTIONS", "GET", "POST"}

\* The fields of the request body the handler of fn tests before it sends.
Required(fn) ==
  CASE fn = "assignment" -> {"taskId", "assigneeEmail", "action"}
    [] fn = "member"     -> {"memberEmail", "action"}
    [] fn = "task"       -> {}

\* The field of the body passed to sendEmail as `to`.
EmailField(fn) == IF fn = "member" THEN "memberEmail" ELSE "assigneeEmail"

\* Request bodies: no text, text that is not JSON, the JSON value null, a
\* JSON number or string, or a JSON object, given by the set of those of its
\* fields whose value is truthy.
Bodies(fn) ==
  {[kind |-> k, fields |-> {}] : k \in {"empty", "invalid", "null", "scalar"}}
    \cup {[kind |-> "object", fields |-> F] :
            F \in SUBSET (Required(fn) \cup {EmailField(fn)})}

\* Requests: OPTIONS and GET carry no body.
Requests(fn) ==
  {[method |-> "OPTIONS", body |-> [kind |-> "empty", fields |-> {}]],
   [method |-> "GET", body |-> [kind |-> "empty", fields |-> {}]]}
    \cup {[method |-> "POST", body |-> b] : b \in Bodies(fn)}

\* Route without the test of the required fields.
RouteNoValidation(fn, req) ==
  IF req.method = "OPTIONS" THEN "options"
  ELSE IF fn = "task"
    THEN IF req.body.kind \in {"empty", "invalid", "null"} THEN "throw"
                                                            ELSE "send"
  ELSE IF req.method = "GET" THEN "health"
  ELSE IF req.body.kind = "empty" THEN "empty"
  ELSE IF req.body.kind = "invalid" THEN "invalid"
  ELSE IF req.body.kind = "null" THEN "throw"
  ELSE "send"

\* The path the handler of fn takes for a request, up to sendEmail:
\* send-task-notification has no GET branch, parses with req.json() inside
\* the try and tests no field; the other two parse inside a try of their
\* own and destructure the parsed value after it.
Route(fn, req) ==
  IF req.method = "OPTIONS" THEN "options"
  ELSE IF fn = "task"
    THEN IF req.body.kind \in {"empty", "invalid", "null"} THEN "throw"
                                                            ELSE "send"
  ELSE IF req.method = "GET" THEN "health"
  ELSE IF req.body.kind = "empty" THEN "empty"
  ELSE IF req.body.kind = "invalid" THEN "invalid"
  ELSE IF req.body.kind = "null" THEN "throw"
  ELSE IF ~(Required(fn) \subseteq req.body.fields) THEN "missing"
  ELSE "send"

\* The response of each path that ends before sendEmail.
Answer(route) ==
  CASE route = "options" -> [status |-> 200, message |-> "none"]
    [] route = "health"  -> [status |-> 200, message |-> "ok"]
    [] route = "empty"   -> [status |-> 200, message |-> "No data to process"]
    [] route = "invalid" -> [status |-> 200, message |-> "Invalid request body"]
    [] route = "missing" ->
         [status |-> 200, message |-> "Missing required fields"]
    [] route = "throw"   -> [status |-> 500, message |-> "error"]

\* The arguments the handler passes to sendEmail (action "assigned",
\* respectively "added"): a field the body lacks is undefined.
HandlerMessage(fn, body) ==
  [to |-> IF EmailField(fn) \in body.fields THEN <<"ann@y.org">>
                                            ELSE <<"undefined">>,
   subject |-> CASE fn = "task"       -> <<"New Task Assigned: T1">>
                 [] fn = "assignment" -> <<"Task Assigned: T1">>
                 [] fn = "member"     -> <<"Added to Project: P1">>,
   body |-> <<"<html>", "</html>">>]

\* The environment of a function when a request comes in: complete, or
\* with the host unset, or with an empty password.
HandlerConfigs ==
  {FullConfig, [FullConfig EXCEPT !.host = Undefined],
   [FullConfig EXCEPT !.pass = ""]}

\* The handler of fn receives a request and runs up to its response or up
\* to the first await inside sendEmail.
HStart(fn, req) ==
  /\ http.pc \in {"idle", "done"}
  /\ LET route == Route(fn, req)
         h == [NoHttp EXCEPT !.fn = fn, !.method = req.method,
                             !.body = req.body, !.base = calls]
     IN  IF route = "send"
           THEN /\ \E c \in HandlerConfigs :
                     Call(fn, c, HandlerMessage(fn, req.body))
                /\ http' = [h EXCEPT !.pc = "sending"]
           ELSE /\ http' = [h EXCEPT !.pc = "done",
                                     !.status = Answer(route).status,
                                     !.message = Answer(route).message,
                                     !.responses = 1]
                /\ UNCHANGED sendVars

\* sendEmail has ended: its value is dropped and the handler answers
\* "Notification sent"; what it threw is caught and answered with 500.
HRespond ==
  /\ http.pc = "sending"
  /\ pc = "returned"
  /\ http' = [http EXCEPT
                !.pc = "done",
                !.status = IF outcome = "throw" THEN 500 ELSE 200,
                !.message = IF outcome = "throw" THEN "error"
                                                 ELSE "Notification sent",
                !.responses = @ + 1]
  /\ UNCHANGED sendVars

\* A read while a request is served: the server gives the expected reply
\* (or the read fails); sendEmail under other replies is the matter of Spec.
ReadExpected == Read /\ Abnormal' = 0

HandlerNext ==
  \/ \E fn \in Variants :
       \E req \in Requests(fn) :
         HStart(fn, req) /\ UNCHANGED <<procs, conns, net, flow, trio, dlg>>
  \/ Connect /\ UNCHANGED aux
  \/ StartTls /\ UNCHANGED aux
  \/ ReadExpected /\ UNCHANGED aux
  \/ Write /\ UNCHANGED aux
  \/ HRespond /\ UNCHANGED <<procs, conns, net, flow, trio, dlg>>

HandlerSpec == Init /\ [][HandlerNext]_vars

\* ----------------------------------------- the task dialog saving a task
\* handleSubmit of TaskDialog for an existing task: the assignees ticked in
\* the form against the rows of task_assignees.  dlg.rows is the set of
\* users with a row for the task (one row per user).
Users == {"u1", "u2", "u3"}

\* The lists that hold every element of S once, in any order.
Listings(S) ==
  {q \in [1..Cardinality(S) -> S] : \A i, j \in 1..Cardinality(S) :
                                      q[i] = q[j] => i = j}

\* What the form can hold: the ticked users, each once (a tick appends the
\* user to the list, an untick filters it out).
FormLists == UNION {Listings(S) : S \in SUBSET Users}

\* previousIds.includes(id)
Includes(q, x) == \E i \in 1..Len(q) : q[i] = x

\* assignee_ids.filter(id => !previousIds.includes(id))
AddedIds(previousIds, assignee_ids) ==
  LET Test(x) == ~Includes(previousIds, x)
  IN  SelectSeq(assignee_ids, Test)

\* RemovedIds with every previous assignee taken as removed.
RemovedIdsAll(previousIds, assignee_ids) == previousIds

\* previousIds.filter(id => !assignee_ids.includes(id))
RemovedIds(previousIds, assignee_ids) ==
  LET Test(x) == ~Includes(assignee_ids, x)
  IN  SelectSeq(previousIds, Test)

\* ids.forEach(...): one invoke of send-assignment-notification for every
\* id that teamMembers.find(...) finds, in order.
EmailRequests(ids, teamMembers, action) ==
  LET Known(x) == x \in teamMembers
      found == SelectSeq(ids, Known)
  IN  [i \in 1..Len(found) |-> [user |-> found[i], action |-> action]]

\* After the diff or one of its two phases: the next phase with work to do,
\* or the success toast.
DlgAfter(d, phase) ==
  IF phase = "select" /\ d.removedIds # <<>> THEN [d EXCEPT !.pc = "delete"]
  ELSE IF d.addedIds # <<>> /\ phase # "insert" THEN [d EXCEPT !.pc = "insert"]
  ELSE [d EXCEPT !.pc = "done", !.toast = "success"]

\* handleSubmit starts for an existing task: the awaited update of tasks.
DlgSubmit(ids, members) ==
  /\ dlg.pc \in {"idle", "done"}
  /\ dlg' = [NoDlg EXCEPT !.pc = "update", !.rows = dlg.rows,
                          !.assignee_ids = ids, !.teamMembers = members]

\* The update settles: with an error, thrown to the catch block, or not.
DlgUpdated ==
  /\ dlg.pc = "update"
  /\ \/ dlg' = [dlg EXCEPT !.pc = "done", !.toast = "error"]
     \/ dlg' = [dlg EXCEPT !.pc = "select"]

\* The select of the task's rows settles, with the rows in some order or
\* with no data; the two differences are computed.
DlgSelected ==
  /\ dlg.pc = "select"
  /\ \E prev \in Listings(dlg.rows) \cup {<<>>} :
       dlg' = DlgAfter([dlg EXCEPT
                          !.previousIds = prev,
                          !.addedIds = AddedIds(prev, dlg.assignee_ids),
                          !.removedIds = RemovedIds(prev, dlg.assignee_ids)],
                       "select")

\* The delete of the removed rows settles (its result is not looked at);
\* the unassignment e-mails are requested.
DlgDeleted ==
  /\ dlg.pc = "delete"
  /\ \E ok \in BOOLEAN :
       dlg' = DlgAfter([dlg EXCEPT
                          !.rows = IF ok
                                     THEN @ \ {dlg.removedIds[i] :
                                                 i \in 1..Len(dlg.removedIds)}
                                     ELSE @,
                          !.requests = @ \o EmailRequests(dlg.removedIds,
                                                          dlg.teamMembers,
                                                          "unassigned")],
                       "delete")

\* The insert of the added rows settles (its result is not looked at): it
\* can succeed only if none of the users has a row already.  The
\* assignment e-mails are requested.
DlgInserted ==
  /\ dlg.pc = "insert"
  /\ \E ok \in IF \E i \in 1..Len(dlg.addedIds) : dlg.addedIds[i] \in dlg.rows
                THEN {FALSE} ELSE BOOLEAN :
       dlg' = DlgAfter([dlg EXCEPT
                          !.rows = IF ok
                                     THEN @ \cup {dlg.addedIds[i] :
                                                    i \in 1..Len(dlg.addedIds)}
                                     ELSE @,
                          !.requests = @ \o EmailRequests(dlg.addedIds,
                                                          dlg.teamMembers,
                                                          "assigned")],
                       "insert")

DlgNext ==
  \/ \E ids \in FormLists, members \in SUBSET Users :
       DlgSubmit(ids, members)
         /\ UNCHANGED <<sendVars, procs, conns, net, flow, trio, http>>
  \/ DlgUpdated /\ UNCHANGED <<sendVars, procs, conns, net, flow, trio, http>>
  \/ DlgSelected /\ UNCHANGED <<sendVars, procs, conns, net, flow, trio, http>>
  \/ DlgDeleted /\ UNCHANGED <<sendVars, procs, conns, net, flow, trio, http>>
  \/ DlgInserted /\ UNCHANGED <<sendVars, procs, conns, net, flow, trio, http>>

DlgSpec == Init /\ [][DlgNext]_vars

\* ------------------------------------------------------------------ claims
Range(q) == {q[i] : i \in 1..Len(q)}

Returned == pc = "returned"

\* First digit of a reply code.
Class(r) == r \div 100

\* The server sent a reply at position i and it is not of the class the
\* step expects.
RejectedAt(i) ==
  /\ i <= Len(replies)
  /\ replies[i] # EOF
  /\ Class(replies[i]) # Class(Expected(StepOrder[i]))

\* The environment cooperated in this call: every I/O primitive succeeded
\* and every reply read was the expected one.
Cooperating == fault = "none" /\ Abnormal = 0

ConfigPresent == ~Falsy(cfg.host) /\ ~Falsy(cfg.user) /\ ~Falsy(cfg.pass)

\* C1: with complete configuration and a cooperating server, a send that
\* has ended returned true, made one connection, and the server saw, once
\* each and in this order, EHLO, AUTH LOGIN, the Base64 username, the Base64
\* password, MAIL FROM, RCPT TO, DATA, one block with the subject and the
\* body, and QUIT.
C1_CooperatingSend ==
  (Returned /\ ConfigPresent /\ Cooperating) =>
    /\ outcome = "true"
    /\ io.connects = 1
    /\ io.tls = 1
    /\ sent = <<"ehlo", "auth", "user", "pass", "mail", "rcpt", "data",
                "content", "quit">>
    /\ wire =
         <<"EHLO smtp.x.org", "AUTH LOGIN", "Ym90QHgub3Jn", "czNjcmV0",
           "MAIL FROM:<bot@x.org>", "RCPT TO:<" \o msg.to[1] \o ">", "DATA",
           "From: bot@x.org", "To: " \o msg.to[1],
           "Subject: " \o msg.subject[1],
           "Content-Type: text/html; charset=utf-8", "">>
           \o msg.body \o <<".", "QUIT">>

C1_Witness ==
  /\ Returned /\ ConfigPresent /\ Cooperating
  /\ outcome = "true"
  /\ Len(replies) = Len(StepOrder)
  /\ variant = "assignment"

\* C2: when a send has ended, by return or by throw, the handle it opened
\* has been closed exactly once and no handle is left open in the process.
C2_HandleClosedOnEveryExit ==
  Returned =>
    /\ openHandles = 0
    /\ io.connects > 0 /\ fault # "connect" => handle = "closed" /\ closes = 1

\* C3: once the server has answered the password line with 535, MAIL FROM
\* is not written, and the send ends with an error and a closed connection.
C3_AuthRejectedStops ==
  (Len(replies) >= 5 /\ replies[5] = 535) =>
    /\ "mail" \notin Range(sent)
    /\ Returned => outcome = "throw" /\ handle = "closed"

\* C4: once the server has answered RCPT TO with 550, neither DATA nor the
\* message content is written, and the send ends with an error.
C4_RecipientRejectedStops ==
  (Len(replies) >= 7 /\ replies[7] = 550) =>
    /\ "data" \notin Range(sent)
    /\ "content" \notin Range(sent)
    /\ Returned => outcome = "throw"

\* C5: in every sender, a call with host, username or password missing or
\* empty does no network I/O and ends with the skip outcome.
C5_MissingConfigNoIo ==
  (calls > 0 /\ ~ConfigPresent) =>
    /\ io = NoIo
    /\ Returned => outcome = "false"

\* C6: a reply of another class than the step expects (greeting to content)
\* stops the dialogue: no later command is written, and the send ends with
\* an error naming the step and a closed connection.
C6_RejectionAborts ==
  \A i \in 1..9 :
    RejectedAt(i) =>
      /\ Len(sent) <= i - 1
      /\ Returned =>
           outcome = "throw" /\ err = StepOrder[i] /\ handle = "closed"

\* C7: a send reports success only if the reply to the data terminator was
\* of the 2xx class, and only with its connection closed.
C7_SuccessMeansAccepted ==
  outcome = "true" =>
    /\ Len(replies) >= 9
    /\ Class(replies[9]) = 2
    /\ handle = "closed"

\* C8: when the TCP connect fails the send has ended with an error and has
\* done no TLS handshake, no read and no write.
C8_ConnectFailure ==
  fault = "connect" =>
    /\ Returned
    /\ outcome = "throw"
    /\ err = "connect"
    /\ io.tls = 0 /\ io.reads = 0 /\ io.writes = 0
    /\ wire = <<>>

C8_Witness ==
  /\ fault = "connect"
  /\ Returned
  /\ outcome = "throw"
  /\ io.connects = 1

\* C9: one call makes at most one connect and one TLS handshake and writes
\* no command twice, whatever happens; a call that got past the
\* configuration guard has made exactly one connect when it ends.
C9_NoRetry ==
  /\ io.connects <= 1
  /\ io.tls <= 1
  /\ \A i, j \in 1..Len(sent) : sent[i] = sent[j] => i = j
  /\ io.writes <= Len(StepOrder) - 1
  /\ (Returned /\ outcome # "false") => io.connects = 1
  /\ (Returned /\ ConfigPresent) => io.connects = 1

C9_Witness ==
  /\ Returned
  /\ fault # "none"
  /\ outcome = "throw"
  /\ io.connects = 1
  /\ Len(sent) >= 1

\* C10: once a greeting that is not a 220 has been read, EHLO and every
\* later command are never written and the send ends as a failure.
C10_BadGreetingAborts ==
  (Len(replies) >= 1 /\ replies[1] # EOF /\ replies[1] # 220) =>
    /\ sent = <<>>
    /\ Returned => outcome = "throw"

\* C11: when the reply to the data terminator was an acceptance and then
\* the write of QUIT or the read of its reply failed, the send has ended
\* as a success with its connection closed.
C11_QuitFailureTolerated ==
  ( /\ Returned
    /\ Len(replies) >= 9 /\ Class(replies[9]) = 2
    /\ fault \in {"read", "write"} ) =>
    /\ outcome = "true"
    /\ handle = "closed"

\* What happened in the call, by the first thing that went wrong: a reply
\* of the wrong class (password: "auth", RCPT TO: "recipient", another step
\* up to the content: "protocol"), else a failed connect or handshake
\* ("connection"), else a failed read or write ("io"), else nothing.
Kind ==
  IF \E i \in 1..9 : RejectedAt(i)
    THEN LET i == CHOOSE k \in 1..9 :
                    RejectedAt(k) /\ \A j \in 1..(k - 1) : ~RejectedAt(j)
         IN  CASE i = 5 -> "auth" [] i = 7 -> "recipient" [] OTHER -> "protocol"
  ELSE IF outcome = "false" THEN "config"
  ELSE IF fault \in {"connect", "startTls"} THEN "connection"
  ELSE IF fault \in {"read", "write"} THEN "io"
  ELSE "success"

\* What the caller can tell from the returned value or the error thrown.
Told ==
  CASE outcome = "true"  -> "success"
    [] outcome = "false" -> "config"
    [] outcome = "throw" /\ err \in {"connect", "startTls"} -> "connection"
    [] outcome = "throw" /\ err \notin {"connect", "startTls"} -> "io"
    [] OTHER -> "none"

\* C12: the value returned or the error thrown tells the caller which kind
\* of outcome the send had (with complete configuration or the skip
\* outcome, a server that keeps the connection open, and not both a
\* rejection and an I/O failure in the same call).
C12_OutcomesDistinguishable ==
  ( /\ Returned
    /\ ConfigPresent \/ outcome = "false"
    /\ ~ServerClosed
    /\ ~(fault # "none" /\ \E i \in 1..9 : RejectedAt(i)) ) =>
    Told = Kind

\* C13: the commands are written in the order EHLO, AUTH LOGIN, username,
\* password, MAIL FROM, RCPT TO, DATA, content, QUIT; none is written
\* before the greeting has been read, and command k+1 only after a read
\* has completed since command k was written.
C13_StrictOrder ==
  /\ \A i \in 1..Len(sent) : sent[i] = StepOrder[i + 1]
  /\ Len(sent) <= Len(replies)
  /\ Len(replies) <= Len(sent) + 1
  /\ io.reads <= io.writes + 1 /\ io.writes <= io.reads

C13_Witness ==
  /\ Len(sent) = 9
  /\ Len(replies) = 10
  /\ variant = "member"

\* C14: every read and every write of a call is made on the stream the
\* TLS handshake returned: after one successful startTls of this call and
\* never after a failed one.
C14_OnlyOverTls ==
  [][ (io'.reads > io.reads \/ io'.writes > io.writes) =>
        handle = "tls" /\ io.tls = 1 /\ fault = "none" ]_vars

C14_Witness ==
  /\ handle = "tls"
  /\ Len(wire) >= 4
  /\ wire[3] = "Ym90QHgub3Jn"
  /\ wire[4] = "czNjcmV0"

\* C17: once the content has been written, the envelope lines are
\* MAIL FROM:<username> and RCPT TO:<to>, and the block after DATA is
\* From, To, Subject, Content-Type, an empty line, the body, and a line
\* with a single dot, with the same username and recipient.
C17_PayloadExact ==
  "content" \in Range(sent) =>
    /\ Len(wire) \in {13 + Len(msg.body), 14 + Len(msg.body)}
    /\ wire[5] = "MAIL FROM:<" \o Str(cfg.user) \o ">"
    /\ wire[6] = "RCPT TO:<" \o msg.to[1] \o ">"
    /\ wire[7] = "DATA"
    /\ SubSeq(wire, 8, 13 + Len(msg.body)) =
         <<"From: " \o Str(cfg.user), "To: " \o msg.to[1],
           "Subject: " \o msg.subject[1],
           "Content-Type: text/html; charset=utf-8", "">>
           \o msg.body \o <<".">>

C17_Witness ==
  /\ "content" \in Range(sent)
  /\ "quit" \notin Range(sent)
  /\ msg.body = <<"<html>", ".", "</html>">>

\* C19: the Base64 username is written only after a 334 was read in reply
\* to AUTH LOGIN, and the Base64 password only after a 334 was read in
\* reply to the username as well.
C19_PromptBeforeCredential ==
  /\ "user" \in Range(sent) => replies[3] = 334
  /\ "pass" \in Range(sent) => replies[3] = 334 /\ replies[4] = 334

\* C18: every send that has started ends, with any outcome, also when the
\* server stops replying.
C18_SendTerminates == (pc = "connect") ~> (pc = "returned")

IsPrefix(a, b) == Len(a) <= Len(b) /\ SubSeq(b, 1, Len(a)) = a

\* Everything a call sending m writes when it runs alone to the end.
AloneWire(m) ==
  <<"EHLO smtp.x.org", "AUTH LOGIN", "Ym90QHgub3Jn", "czNjcmV0",
    "MAIL FROM:<bot@x.org>", "RCPT TO:<" \o m.to[1] \o ">", "DATA",
    "From: bot@x.org", "To: " \o m.to[1], "Subject: " \o m.subject[1],
    "Content-Type: text/html; charset=utf-8", "">>
    \o m.body \o <<".", "QUIT">>

\* C15: with calls interleaved in any way, every connection is read and
\* written by the call that opened it only, no two calls hold the same
\* connection, and the lines the server sees on it are a prefix of what
\* that call writes when it runs alone, all of it when the call succeeded.
C15_OwnConnection ==
  /\ \A c \in 1..Len(conns) :
       /\ conns[c].users \subseteq {conns[c].opener}
       /\ IsPrefix(conns[c].lines, AloneWire(MsgOf(conns[c].opener)))
  /\ \A p, q \in Procs :
       (p # q /\ procs[p].conn # 0) => procs[p].conn # procs[q].conn
  /\ \A p \in Procs :
       procs[p].outcome = "true" =>
         conns[procs[p].conn].lines = AloneWire(MsgOf(p))

\* Two calls in the middle of their dialogues at the same time.
C15_Witness ==
  /\ Len(conns) = 2
  /\ procs[1].pc = "read" /\ procs[1].step = "rcpt"
  /\ procs[2].pc = "write" /\ procs[2].step = "user"
  /\ Len(conns[procs[1].conn].lines) = 6
  /\ Len(conns[procs[2].conn].lines) = 2

\* C20: what the read at step k consumes belongs to the reply to step k's
\* command and to no earlier reply, and a command is written only when the
\* server's whole reply to the previous one has been read.
C20_ReadsOwnReply ==
  /\ \A i \in 1..Len(net.consumed) : net.consumed[i] = {StepOrder[i]}
  /\ Len(sent) >= 1 =>
       \A i \in 1..Len(net.inbox) : net.inbox[i] = StepOrder[Len(sent) + 1]

\* C16: once the database write of a workflow has succeeded, the workflow
\* reaches its success outcome (success toast, refresh, loading cleared),
\* whether the notification function call succeeds, fails or never settles.
C16_NotificationNeverBlocks ==
  (flow.db = "ok") ~>
    (flow.pc = "done" /\ flow.toast = "success" /\ flow.refreshed
       /\ ~flow.loading)

\* C21: a failure of the network in the middle of a session stops the
\* dialogue: once a read or a write has failed the send has ended with an
\* error and its connection closed, and once a read has reported the end of
\* the stream no further command is written and the send ends with an error
\* and its connection closed.
C21_NetworkFailureAborts ==
  /\ fault \in {"read", "write"} =>
       Returned /\ outcome = "throw" /\ handle = "closed"
  /\ \A i \in 1..Len(replies) :
       replies[i] = EOF =>
         /\ Len(sent) <= i - 1
         /\ Returned => outcome = "throw" /\ handle = "closed"

\* C22: once the content has been written, the only line of the block
\* after DATA that is a single dot is its last one, the terminator.
C22_NoEarlyTerminator ==
  (ConfigPresent /\ "content" \in Range(sent)) =>
    /\ Len(wire) >= 13 + Len(msg.body)
    /\ wire[13 + Len(msg.body)] = "."
    /\ \A i \in 8..(12 + Len(msg.body)) : wire[i] # "."

\* Position of the first line equal to x in q after position `from`
\* (Len(q) + 1 if there is none).
FirstAt(q, x, from) ==
  IF \E i \in (from + 1)..Len(q) : q[i] = x
    THEN CHOOSE i \in (from + 1)..Len(q) :
           q[i] = x /\ \A j \in (from + 1)..(i - 1) : q[j] # x
    ELSE Len(q) + 1

\* The lines the server takes as the message's headers: those after the
\* DATA line up to the first empty line.
HeaderLines ==
  LET d == FirstAt(wire, "DATA", 0)
  IN  SubSeq(wire, d + 1, FirstAt(wire, "", d) - 1)

\* C23: whatever the recipient and the subject are, each of the commands up
\* to DATA is one line on the wire, RCPT TO included, and once the content
\* has been written the header block before the empty line has exactly
\* four lines.
C23_NoInjectedLines ==
  /\ Len(sent) <= 7 => Len(wire) = Len(sent)
  /\ "content" \in Range(sent) => Len(HeaderLines) = 4

\* C24: given the same arguments, the same configuration (complete or
\* with host, username or password missing) and the same behaviour of the
\* network and the server, the three copies of sendEmail have, when all
\* have ended, made the same I/O calls in the same order, written the same
\* lines, and ended in the same outcome.
C24_CopiesEquivalent ==
  (\A v \in Variants : trio.run[v].pc = "returned") =>
    \A v, w \in Variants :
      /\ trio.run[v].ops = trio.run[w].ops
      /\ trio.run[v].outcome = trio.run[w].outcome

\* C25: in send-assignment-notification and send-project-member-
\* notification, a response with the message "Notification sent" has been
\* produced only when sendEmail returned true after the whole dialogue and
\* with its connection closed, never when the configuration was missing.
C25_SentMeansDelivered ==
  (http.fn \in {"assignment", "member"}
     /\ http.message = "Notification sent") =>
    /\ outcome = "true"
    /\ ConfigPresent
    /\ Len(replies) = Len(StepOrder)
    /\ handle = "closed"

\* sendEmail was called for the request and threw.
SendThrew == calls > http.base /\ outcome = "throw"

\* In send-task-notification, the statement that parses the body threw.
ParseThrew ==
  /\ http.fn = "task"
  /\ http.method # "OPTIONS"
  /\ http.body.kind \in {"empty", "invalid", "null"}

\* C26: a request never gets more than one response; a request that has
\* been answered got exactly one, with status 500 and an error message if
\* and only if sendEmail threw (or, in send-task-notification, the body
\* parse threw), and with status 200 otherwise.
C26_StatusMatchesFailure ==
  /\ http.responses <= 1
  /\ http.pc = "done" =>
       /\ http.responses = 1
       /\ http.status \in {200, 500}
       /\ http.status = 500 <=> (SendThrew \/ ParseThrew)
       /\ http.status = 500 => http.message = "error"

\* The request is neither OPTIONS nor GET and its body is a JSON object
\* with every required field of the function.
Eligible ==
  /\ http.method \notin {"OPTIONS", "GET"}
  /\ http.body.kind = "object"
  /\ Required(http.fn) \subseteq http.body.fields

\* C27: in send-assignment-notification and send-project-member-
\* notification, sendEmail is called for a request, and any SMTP I/O is in
\* progress, only if the request is neither OPTIONS nor GET and has a JSON
\* body with the required fields; every other request is answered with no
\* call of sendEmail.
C27_SendOnlyForValidRequests ==
  http.fn \in {"assignment", "member"} =>
    /\ (calls > http.base \/ pc \notin {"idle", "returned"}) => Eligible
    /\ (http.pc = "done" /\ ~Eligible) =>
         calls = http.base /\ http.responses = 1

C27_Witness ==
  /\ http.fn = "member"
  /\ http.pc = "sending"
  /\ Eligible
  /\ calls > http.base
  /\ handle = "tls"
  /\ Len(wire) >= 6
  /\ wire[6] = "RCPT TO:<ann@y.org>"

\* Number of e-mail requests made for user u with action a in this save.
Requested(u, a) ==
  Cardinality({i \in 1..Len(dlg.requests) :
                 dlg.requests[i] = [user |-> u, action |-> a]})

\* C28: in a save of an existing task, the added and the removed ids are
\* disjoint; no user gets more than one e-mail request, nor both kinds; a
\* user in both the previous and the new list gets none; and when the save
\* has ended well, a user gets one "assigned" request exactly if new, not
\* previous and a team member, and one "unassigned" request exactly if
\* previous, not new and a team member.
C28_AssigneeDiff ==
  LET prev == Range(dlg.previousIds)
      new == Range(dlg.assignee_ids)
  IN  /\ Range(dlg.addedIds) \cap Range(dlg.removedIds) = {}
      /\ \A u \in Users :
           /\ Requested(u, "assigned") + Requested(u, "unassigned") <= 1
           /\ u \in prev \cap new =>
                Requested(u, "assigned") + Requested(u, "unassigned") = 0
           /\ (dlg.pc = "done" /\ dlg.toast = "success") =>
                /\ Requested(u, "assigned") =
                     IF u \in (new \ prev) \cap dlg.teamMembers THEN 1 ELSE 0
                /\ Requested(u, "unassigned") =
                     IF u \in (prev \ new) \cap dlg.teamMembers THEN 1 ELSE 0

\* A save that kept one assignee, removed one and added one, with an e-mail
\* request for each of the latter two.
C28_Witness ==
  /\ dlg.pc = "done"
  /\ dlg.toast = "success"
  /\ Range(dlg.previousIds) \cap Range(dlg.assignee_ids) # {}
  /\ Len(dlg.removedIds) = 1
  /\ Len(dlg.addedIds) = 1
  /\ Len(dlg.requests) = 2
  /\ dlg.requests[1].action = "unassigned"
  /\ dlg.requests[2].action = "assigned"

====
